---- MODULE Spec2Model ----
(***************************************************************************)
(* Metris AI chat API: the three request handlers (the streaming handler   *)
(* of src/unnamed/part_000 and the buffered handlers of src/api/chat.js    *)
(* and src/unnamed/part_001), prompt assembly, and the streaming relay     *)
(* that decodes the provider's chunked event stream.                       *)
(*                                                                         *)
(* Text is a sequence of one-character strings; the upstream body is a     *)
(* sequence of bytes, an ASCII byte being written as its character and the *)
(* two bytes of a two-byte UTF-8 character as "C3" and "A9".               *)
(***************************************************************************)
EXTENDS Integers, Sequences, FiniteSets, TLC

(***************************************************************************)
(* Program constants.                                                      *)
(***************************************************************************)
MAX_CONTEXT_ITEMS == 5

MAX_BODY_LENGTH == 2800

MAX_HISTORY == 10

MAX_TURN_LENGTH == 2000

DATA_PREFIX_LENGTH == 6

(***************************************************************************)
(* Bound of the model: the number of lines of a generated upstream body.   *)
(***************************************************************************)
MaxLines == 2

(***************************************************************************)
(* Text helpers.                                                           *)
(***************************************************************************)
LF == "\n"

Whitespace == {" ", "\t", "\r", "\n"}

\* String.prototype.slice(from) for 0 <= from.
SliceFrom(s, from) == SubSeq(s, from + 1, Len(s))

\* String.prototype.slice(0, to) for 0 <= to.
SliceTo(s, to) == SubSeq(s, 1, IF to < Len(s) THEN to ELSE Len(s))

\* String.prototype.startsWith
StartsWith(s, p) == Len(s) >= Len(p) /\ SubSeq(s, 1, Len(p)) = p

EndsWith(s, p) == Len(s) >= Len(p) /\ SubSeq(s, Len(s) - Len(p) + 1, Len(s)) = p

RECURSIVE TrimStart(_)
TrimStart(s) ==
    IF s # <<>> /\ Head(s) \in Whitespace THEN TrimStart(Tail(s)) ELSE s

RECURSIVE TrimEnd(_)
TrimEnd(s) ==
    IF s # <<>> /\ s[Len(s)] \in Whitespace
    THEN TrimEnd(SubSeq(s, 1, Len(s) - 1))
    ELSE s

\* String.prototype.trim
Trim(s) == TrimEnd(TrimStart(s))

\* The index of the first element of s that is in set, 0 when there is none.
FirstIn(s, set) ==
    IF \E i \in 1..Len(s) : s[i] \in set
    THEN CHOOSE i \in 1..Len(s) : s[i] \in set /\ \A j \in 1..(i - 1) : s[j] \notin set
    ELSE 0

\* The segments of buffer.split('\n'): always at least one, the last one being
\* the text after the last newline.
RECURSIVE SplitLines(_)
SplitLines(s) ==
    LET i == FirstIn(s, {LF}) IN
    IF i = 0 THEN <<s>>
    ELSE <<SubSeq(s, 1, i - 1)>> \o SplitLines(SubSeq(s, i + 1, Len(s)))

(***************************************************************************)
(* The wire format of the two event streams.                               *)
(***************************************************************************)
DataPrefix == <<"d", "a", "t", "a", ":", " ">>

Sentinel == <<"[", "D", "O", "N", "E", "]">>

\* {"choices":[{"delta":{"content":"
FrameOpen ==
    <<"{", "\"", "c", "h", "o", "i", "c", "e", "s", "\"", ":", "[", "{",
      "\"", "d", "e", "l", "t", "a", "\"", ":", "{",
      "\"", "c", "o", "n", "t", "e", "n", "t", "\"", ":", "\"">>

\* "}}]}
FrameClose == <<"\"", "}", "}", "]", "}">>

\* {"token":"
TokenOpen == <<"{", "\"", "t", "o", "k", "e", "n", "\"", ":", "\"">>

\* "}
TokenClose == <<"\"", "}">>

EventEnd == <<LF, LF>>

\* Characters that JSON writes escaped inside a string.
Escaped == {"\"", "\\", "\n", "\r", "\t"}

PlainText(s) == \A i \in 1..Len(s) : s[i] \notin Escaped

(***************************************************************************)
(* TextDecoder.decode(value, {stream: true}): a lead byte at the end of a  *)
(* read is kept until its continuation byte arrives.                       *)
(***************************************************************************)
LeadBytes == {"C3"}

ContBytes == {"A9"}

EAcute == "U+00E9"

Replacement == "U+FFFD"

\* The text of `bytes` after the pending bytes `pend`, and the bytes kept.
RECURSIVE DecodeFrom(_, _, _)
DecodeFrom(pend, bytes, acc) ==
    IF bytes = <<>> THEN [text |-> acc, pending |-> pend]
    ELSE IF pend # <<>>
    THEN IF Head(bytes) \in ContBytes
         THEN DecodeFrom(<<>>, Tail(bytes), Append(acc, EAcute))
         ELSE DecodeFrom(<<>>, bytes, Append(acc, Replacement))
    ELSE LET i == FirstIn(bytes, LeadBytes \cup ContBytes) IN
         IF i = 0 THEN [text |-> acc \o bytes, pending |-> <<>>]
         ELSE LET ascii == SubSeq(bytes, 1, i - 1)
                  rest == SubSeq(bytes, i + 1, Len(bytes))
              IN  IF bytes[i] \in LeadBytes
                  THEN DecodeFrom(<<bytes[i]>>, rest, acc \o ascii)
                  ELSE DecodeFrom(<<>>, rest, Append(acc \o ascii, Replacement))

Decode(pend, bytes) == DecodeFrom(pend, bytes, <<>>)

(***************************************************************************)
(* JSON.parse of a frame payload, and the read of                          *)
(* parsed.choices?.[0]?.delta?.content.  The payloads told apart are the   *)
(* delta frame with a plain string content, the empty object, null, and    *)
(* everything else, which is a SyntaxError here.                           *)
(***************************************************************************)
IsDeltaFrame(p) ==
    /\ StartsWith(p, FrameOpen)
    /\ EndsWith(p, FrameClose)
    /\ Len(p) >= Len(FrameOpen) + Len(FrameClose)
    /\ PlainText(SubSeq(p, Len(FrameOpen) + 1, Len(p) - Len(FrameClose)))

JSONParseFrame(p) ==
    IF IsDeltaFrame(p)
    THEN [t |-> "delta",
          content |-> SubSeq(p, Len(FrameOpen) + 1, Len(p) - Len(FrameClose))]
    ELSE IF p = <<"{", "}">> THEN [t |-> "object", content |-> <<>>]
    ELSE IF p = <<"n", "u", "l", "l">> THEN [t |-> "null", content |-> <<>>]
    ELSE [t |-> "SyntaxError", content |-> <<>>]

\* The token a payload yields: <<>> when JSON.parse throws, when the property
\* read throws (null), and when the content is absent or empty.
FrameToken(p) ==
    LET parsed == JSONParseFrame(p) IN
    IF parsed.t = "delta" THEN parsed.content ELSE <<>>

\* JSON.stringify({ token }) for a token of plain text.
TokenEvent(token) == DataPrefix \o TokenOpen \o token \o TokenClose \o EventEnd

DoneEvent == DataPrefix \o Sentinel \o EventEnd

\* A loop whose try block is around the whole loop: the first payload that
\* makes JSON.parse or the property read throw ends the pass over the lines.
RECURSIVE ProcessLinesUntilError(_, _)
ProcessLinesUntilError(lines, out) ==
    IF lines = <<>> THEN out
    ELSE LET line == Head(lines) IN
         IF ~StartsWith(line, DataPrefix) THEN ProcessLinesUntilError(Tail(lines), out)
         ELSE LET payload == Trim(SliceFrom(line, DATA_PREFIX_LENGTH)) IN
              IF payload = Sentinel THEN Append(out, DoneEvent)
              ELSE IF JSONParseFrame(payload).t \in {"SyntaxError", "null"} THEN out
              ELSE LET token == FrameToken(payload) IN
                   IF token # <<>>
                   THEN ProcessLinesUntilError(Tail(lines), Append(out, TokenEvent(token)))
                   ELSE ProcessLinesUntilError(Tail(lines), out)

(***************************************************************************)
(* The for loop over the complete lines of one read: the writes it adds to *)
(* `out`.  The break at the sentinel leaves this loop only.                *)
(***************************************************************************)
RECURSIVE ProcessLines(_, _)
ProcessLines(lines, out) ==
    IF lines = <<>> THEN out
    ELSE LET line == Head(lines) IN
         IF ~StartsWith(line, DataPrefix) THEN ProcessLines(Tail(lines), out)
         ELSE LET payload == Trim(SliceFrom(line, DATA_PREFIX_LENGTH)) IN
              IF payload = Sentinel THEN Append(out, DoneEvent)
              ELSE LET token == FrameToken(payload) IN
                   IF token # <<>>
                   THEN ProcessLines(Tail(lines), Append(out, TokenEvent(token)))
                   ELSE ProcessLines(Tail(lines), out)

\* A relay that forgets the unfinished line of a read.
PopLastDropped(segs) == <<>>

\* A pop that leaves the unfinished line in the list as well.
AllWithLast(segs) == segs

\* lines.pop() || ''
PopLast(segs) == segs[Len(segs)]

\* what lines.pop() leaves in `lines`
AllButLast(segs) == SubSeq(segs, 1, Len(segs) - 1)

(***************************************************************************)
(* JavaScript values of a request: a record tagged with its type.          *)
(***************************************************************************)
Undef == [t |-> "undefined"]

Null == [t |-> "null"]

Str(s) == [t |-> "string", s |-> s]

Num(n) == [t |-> "number", n |-> n]

Arr(items) == [t |-> "array", items |-> items]

Bool(b) == [t |-> "boolean", b |-> b]

\* Request text that has not been parsed yet.
Raw(text) == [t |-> "string", raw |-> text]

Truthy(v) ==
    CASE v.t \in {"undefined", "null"} -> FALSE
      [] v.t = "string" -> v.s # <<>>
      [] v.t = "number" -> v.n # 0
      [] v.t = "boolean" -> v.b
      [] OTHER -> TRUE

\* v.name for a v that is neither null nor undefined.
Field(v, name) == IF v.t = "object" /\ name \in DOMAIN v THEN v[name] ELSE Undef

Digit(n) == <<"0", "1", "2", "3", "4", "5", "6", "7", "8", "9">>[n + 1]

RECURSIVE Digits(_)
Digits(n) == IF n < 10 THEN <<Digit(n)>> ELSE Append(Digits(n \div 10), Digit(n % 10))

ObjectText == <<"[", "o", "b", "j", "e", "c", "t", " ", "O", "b", "j", "e", "c", "t", "]">>

\* String(v) of a value other than an array.
StringOf(v) ==
    CASE v.t = "string" -> v.s
      [] v.t = "number" -> Digits(v.n)
      [] v.t = "undefined" -> <<"u", "n", "d", "e", "f", "i", "n", "e", "d">>
      [] v.t = "null" -> <<"n", "u", "l", "l">>
      [] v.t = "boolean" ->
            IF v.b THEN <<"t", "r", "u", "e">> ELSE <<"f", "a", "l", "s", "e">>
      [] OTHER -> ObjectText

(***************************************************************************)
(* JSON.parse of the request texts of the model.                           *)
(***************************************************************************)
Hi == <<"h", "i">>

PaddedHi == <<" ", "h", "i", " ">>

JSONParseBody(text) ==
    CASE text = "null" -> [ok |-> TRUE, value |-> Null]
      [] text = "{}" -> [ok |-> TRUE, value |-> [t |-> "object"]]
      [] text = "7" -> [ok |-> TRUE, value |-> Num(7)]
      [] text = "{\"question\":\" hi \",\"context\":\"x\"}" ->
            [ok |-> TRUE,
             value |-> [t |-> "object", question |-> Str(PaddedHi), context |-> Str(<<"x">>)]]
      [] OTHER -> [ok |-> FALSE, value |-> Undef]

\* typeof req.body === 'string' ? JSON.parse(req.body) : req.body || {}
ParseBody(body) ==
    IF body.t = "string" THEN JSONParseBody(body.raw)
    ELSE IF Truthy(body) THEN [ok |-> TRUE, value |-> body]
    ELSE [ok |-> TRUE, value |-> [t |-> "object"]]

\* A question that is not trimmed.
QuestionOfUntrimmed(body) ==
    LET q == Field(body, "question") IN
    IF q.t = "string" THEN q.s ELSE <<>>

\* typeof body.question === 'string' ? body.question.trim() : ''
QuestionOf(body) ==
    LET q == Field(body, "question") IN
    IF q.t = "string" THEN Trim(q.s) ELSE <<>>

\* Array.isArray(x) ? x : []
ArrayOrEmpty(v) == IF v.t = "array" THEN v.items ELSE <<>>

(***************************************************************************)
(* Prompt assembly.  The fixed persona text is one opaque element.         *)
(***************************************************************************)
Persona(variant) ==
    CASE variant = "stream" -> <<"<persona of part_000>">>
      [] variant = "chat" -> <<"<persona of api/chat.js>">>
      [] OTHER -> <<"<persona of part_001>">>

ArticleDefault == <<"A", "r", "t", "i", "c", "l", "e">>

Placeholder ==
    <<"N", "o", " ", "a", "r", "t", "i", "c", "l", "e", "s", " ", "w", "e", "r", "e",
      " ", "p", "r", "o", "v", "i", "d", "e", "d", ".">>

BlockSeparator == <<LF, LF, "-", "-", "-", LF, LF>>

\* (item.body || '').slice(0, MAX_BODY_LENGTH) throws when item is null or
\* undefined and when a truthy body has no slice method.
ItemThrows(item) ==
    \/ item.t \in {"null", "undefined"}
    \/ LET b == Field(item, "body") IN Truthy(b) /\ b.t \notin {"string", "array"}

\* A cut that marks what it dropped with a trailing dot.
ItemBodyMarked(item) ==
    LET b == Field(item, "body") IN
    IF Truthy(b) /\ b.t = "string"
    THEN (IF Len(b.s) > MAX_BODY_LENGTH
          THEN SliceTo(b.s, MAX_BODY_LENGTH) \o <<".">>
          ELSE b.s)
    ELSE <<>>

ItemBody(item) ==
    LET b == Field(item, "body") IN
    IF Truthy(b) /\ b.t = "string" THEN SliceTo(b.s, MAX_BODY_LENGTH) ELSE <<>>

ItemTitle(item) ==
    LET ti == Field(item, "title") IN
    IF Truthy(ti) THEN StringOf(ti) ELSE ArticleDefault

\* One block: the streaming variant numbers its articles.
Block(variant, item, i) ==
    <<"#", "#", " ">>
    \o (IF variant = "stream"
        THEN <<"[", "A", "r", "t", "i", "c", "l", "e", " ">> \o Digits(i) \o <<"]", " ">>
        ELSE <<>>)
    \o ItemTitle(item) \o <<LF>> \o ItemBody(item)

RECURSIVE JoinBlocks(_, _, _)
JoinBlocks(variant, items, i) ==
    IF i > Len(items) THEN <<>>
    ELSE (IF i > 1 THEN BlockSeparator ELSE <<>>)
         \o Block(variant, items[i], i) \o JoinBlocks(variant, items, i + 1)

buildSystemPrompt(variant, context) ==
    LET items == SliceTo(context, MAX_CONTEXT_ITEMS)
        refs == JoinBlocks(variant, items, 1)
    IN  IF \E i \in 1..Len(items) : ItemThrows(items[i])
        THEN [throws |-> TRUE, value |-> <<>>]
        ELSE [throws |-> FALSE,
              value |-> Persona(variant) \o (IF refs # <<>> THEN refs ELSE Placeholder)]

\* A window taken after the role filter: the last MAX_HISTORY entries among
\* those with role user or assistant.
ChatEntry(e) ==
    /\ Field(e, "role").t = "string"
    /\ Field(e, "role").s \in {<<"u", "s", "e", "r">>,
                               <<"a", "s", "s", "i", "s", "t", "a", "n", "t">>}

RecentOfChatEntries(history) ==
    LET kept == SelectSeq(history, ChatEntry) IN
    SubSeq(kept, IF Len(kept) > MAX_HISTORY THEN Len(kept) - MAX_HISTORY + 1 ELSE 1, Len(kept))

\* (history || []).slice(-MAX_HISTORY)
Recent(history) ==
    SubSeq(history,
           IF Len(history) > MAX_HISTORY THEN Len(history) - MAX_HISTORY + 1 ELSE 1,
           Len(history))

Message(role, content) == [role |-> role, content |-> content]

TurnRole(msg) ==
    LET r == Field(msg, "role") IN IF r.t = "string" THEN r.s ELSE <<>>

UserRole == <<"u", "s", "e", "r">>

AssistantRole == <<"a", "s", "s", "i", "s", "t", "a", "n", "t">>

SystemRole == <<"s", "y", "s", "t", "e", "m">>

\* String(msg.content || '').slice(0, 2000)
TurnContent(msg) ==
    LET c == Field(msg, "content") IN
    SliceTo(IF Truthy(c) THEN StringOf(c) ELSE <<>>, MAX_TURN_LENGTH)

\* A loop that puts each kept turn before the ones kept so far.
RECURSIVE RetainedTurnsReversed(_)
RetainedTurnsReversed(recent) ==
    IF recent = <<>> THEN <<>>
    ELSE LET msg == Head(recent) IN
         RetainedTurnsReversed(Tail(recent))
         \o (IF TurnRole(msg) \in {UserRole, AssistantRole}
             THEN <<Message(TurnRole(msg), TurnContent(msg))>>
             ELSE <<>>)

RECURSIVE RetainedTurns(_)
RetainedTurns(recent) ==
    IF recent = <<>> THEN <<>>
    ELSE LET msg == Head(recent) IN
         (IF TurnRole(msg) \in {UserRole, AssistantRole}
          THEN <<Message(TurnRole(msg), TurnContent(msg))>>
          ELSE <<>>)
         \o RetainedTurns(Tail(recent))

\* msg.role throws when an entry is null or undefined.
buildMessages(systemPrompt, question, history) ==
    LET recent == Recent(history) IN
    IF \E i \in 1..Len(recent) : recent[i].t \in {"null", "undefined"}
    THEN [throws |-> TRUE, value |-> <<>>]
    ELSE [throws |-> FALSE,
          value |-> <<Message(SystemRole, systemPrompt)>>
                    \o RetainedTurns(recent)
                    \o <<Message(UserRole, question)>>]

\* The buffered handlers send the system prompt and the question only.
callMessages(systemPrompt, question) ==
    <<Message(SystemRole, systemPrompt), Message(UserRole, question)>>

(***************************************************************************)
(* Inputs: the requests and the upstream bodies of the model.              *)
(***************************************************************************)
Variants == {"stream", "chat", "chat2"}

Methods == {"OPTIONS", "GET", "POST"}

GoodItem == [t |-> "object", title |-> Str(<<"T">>), body |-> Str(<<"b", "o", "d", "y">>)]

UserTurn == [t |-> "object", role |-> Str(UserRole), content |-> Str(<<"q">>)]

ToolTurn == [t |-> "object", role |-> Str(<<"t", "o", "o", "l">>), content |-> Str(<<"x">>)]

ReqBody(question, context, history) ==
    [t |-> "object", question |-> question, context |-> context, history |-> history]

ReqBodies ==
    { Undef,
      Raw("{bad"),
      Raw(""),
      Raw("null"),
      Raw("{}"),
      Raw("7"),
      Raw("{\"question\":\" hi \",\"context\":\"x\"}"),
      [t |-> "object"],
      ReqBody(Num(5), Undef, Undef),
      ReqBody(Str(<<>>), Undef, Undef),
      ReqBody(Str(<<" ", "\t">>), Arr(<<GoodItem>>), Undef),
      ReqBody(Str(Hi), Arr(<<GoodItem>>), Arr(<<UserTurn, ToolTurn>>)),
      ReqBody(Str(Hi), Arr(<<Null>>), Undef),
      ReqBody(Str(Hi), Arr(<<[t |-> "object", title |-> Num(5), body |-> Num(7)]>>), Undef),
      ReqBody(Str(Hi), Undef, Arr(<<Null>>)) }

Requests == [method : Methods, body : ReqBodies]

FrameLine(token) == DataPrefix \o FrameOpen \o token \o FrameClose

SentinelLine == DataPrefix \o Sentinel

MalformedLine == DataPrefix \o <<"{", "x">>

NoContentLine == DataPrefix \o <<"{", "}">>

EmptyContentLine == DataPrefix \o FrameOpen \o FrameClose

CommentLine == <<":", "k">>

LineKinds == { FrameLine(<<"a">>), SentinelLine, MalformedLine, <<>> }

\* The lines joined, each followed by a newline but for the last one when the
\* body is not terminated.
RECURSIVE JoinLines(_, _)
JoinLines(lines, terminated) ==
    IF lines = <<>> THEN <<>>
    ELSE Head(lines)
         \o (IF Len(lines) > 1 \/ terminated THEN <<LF>> ELSE <<>>)
         \o JoinLines(Tail(lines), terminated)

GeneratedBodies ==
    UNION { { JoinLines(ls, term) : ls \in [1..n -> LineKinds], term \in BOOLEAN }
            : n \in 0..MaxLines }

\* The two reads of the specification's example, as one body.
ExampleBody ==
    JoinLines(<<FrameLine(<<"H", "e", "l">>), <<>>, FrameLine(<<"l", "o">>), <<>>,
                SentinelLine, <<>>>>, TRUE)

ExtraBodies ==
    { ExampleBody,
      \* a two-byte character inside a token
      JoinLines(<<FrameLine(<<"C3", "A9">>), SentinelLine>>, TRUE),
      \* CRLF line ends and padding around the payload
      JoinLines(<<FrameLine(<<"a">>) \o <<"\r">>, DataPrefix \o <<" ">> \o Sentinel \o <<"\r">>>>, TRUE),
      \* frames and a second sentinel after the sentinel
      JoinLines(<<FrameLine(<<"a">>), SentinelLine, <<>>, FrameLine(<<"b">>), SentinelLine>>, TRUE),
      \* lines that yield no event between two frames, and a last frame that is
      \* not terminated
      JoinLines(<<FrameLine(<<"a">>), CommentLine, NoContentLine, EmptyContentLine,
                  DataPrefix \o <<"n", "u", "l", "l">>, MalformedLine, FrameLine(<<"b">>),
                  FrameLine(<<"c">>)>>, FALSE) }

UpstreamBodies == GeneratedBodies \cup ExtraBodies

ProviderContents == { <<" ", "o", "k", " ">>, <<>> }

(***************************************************************************)
(* State.                                                                  *)
(***************************************************************************)
VARIABLES
    variant,      \* which handler serves the request
    req,          \* the request: method and body
    apiKey,       \* whether process.env.OPENAI_API_KEY is set
    pc,           \* start | fetching | reading | done | crashed
    statusCode,   \* res.statusCode
    contentType,  \* the Content-Type header set on res
    replies,      \* the bodies sent with res.json
    written,      \* the events written with res.write
    ended,        \* how many times the response was completed (json or end)
    fetchCalls,   \* outbound calls made
    messages,     \* the payload of the call in flight
    outcome,      \* what the provider answered
    upstreamBody, \* the whole body of the provider's stream
    upstream,     \* the bytes of it not read yet
    pending,      \* the decoder's incomplete character
    buffer,       \* the relay's carry
    linesSeen,    \* the elements of `lines` of every read so far, in order
    connected     \* whether the downstream consumer is still there

vars ==
    <<variant, req, apiKey, pc, statusCode, contentType, replies, written, ended,
      fetchCalls, messages, outcome, upstreamBody, upstream, pending, buffer, linesSeen,
      connected>>

resVars == <<statusCode, contentType, replies, written, ended>>

streamVars == <<upstreamBody, upstream, pending, buffer, linesSeen>>

Json(key, value, text) == [key |-> key, value |-> value, text |-> text]

NotConfiguredReply ==
    Json("reply",
         "Metris AI isn't configured for this environment. Please browse the articles above or email support@metrisenergy.com.",
         <<>>)

ApologyReply ==
    Json("reply",
         "Sorry, I had trouble answering that. Please try again or contact support@metrisenergy.com.",
         <<>>)

InvalidJsonError == Json("error", "Invalid JSON", <<>>)

MissingQuestionError == Json("error", "Missing question", <<>>)

MethodError == Json("error", "Method not allowed", <<>>)

ProviderReply(text) == Json("reply", "provider", text)

Init ==
    /\ variant \in Variants
    /\ req \in Requests
    /\ apiKey \in BOOLEAN
    /\ pc = "start"
    /\ statusCode = 200
    /\ contentType = "none"
    /\ replies = <<>>
    /\ written = <<>>
    /\ ended = 0
    /\ fetchCalls = 0
    /\ messages = <<>>
    /\ outcome = "none"
    /\ upstreamBody = <<>>
    /\ upstream = <<>>
    /\ pending = <<>>
    /\ buffer = <<>>
    /\ linesSeen = <<>>
    /\ connected = TRUE

(***************************************************************************)
(* The response object.                                                    *)
(***************************************************************************)
\* Node sends the header block with the first write.
HeadersSent == written # <<>> \/ ended > 0

\* res.status(code).json(body) and return
SendJson(code, body) ==
    /\ statusCode' = code
    /\ contentType' = "application/json"
    /\ replies' = Append(replies, body)
    /\ ended' = ended + 1
    /\ pc' = "done"
    /\ UNCHANGED written

\* An exception that no try block of the handler catches.
Escapes ==
    /\ pc' = "crashed"
    /\ UNCHANGED resVars

\* The status the buffered handlers give the apology.
BufferedFailureStatus == 500

\* catch (e) of the handler: the apology reply.  Once the header block is out,
\* res.json throws from inside the catch block.
CatchBlock ==
    IF variant = "stream"
    THEN IF HeadersSent
         THEN /\ pc' = "crashed"
              /\ statusCode' = 200
              /\ UNCHANGED <<contentType, replies, written, ended>>
         ELSE SendJson(200, ApologyReply)
    ELSE SendJson(BufferedFailureStatus, ApologyReply)

(***************************************************************************)
(* The synchronous part of a handler, up to its first await: what it does  *)
(* with the request.                                                       *)
(*   kind "end":    res.status(code).end()                                 *)
(*   kind "json":   res.status(code).json(body)                            *)
(*   kind "throw":  an exception outside every try block                   *)
(*   kind "caught": an exception inside the try block of the handler       *)
(*   kind "fetch":  the outbound call is made with `messages`              *)
(***************************************************************************)
Step(kind, code, body, msgs) == [kind |-> kind, code |-> code, body |-> body, messages |-> msgs]

\* The call: the streaming handler assembles the prompt before its try block,
\* the buffered handlers inside callOpenAI, which the try block covers.
PlanCall(v, question, context, history) ==
    LET sp == buildSystemPrompt(v, context) IN
    IF v = "stream"
    THEN IF sp.throws THEN Step("throw", 0, ApologyReply, <<>>)
         ELSE LET m == buildMessages(sp.value, question, history) IN
              IF m.throws THEN Step("throw", 0, ApologyReply, <<>>)
              ELSE Step("fetch", 0, ApologyReply, m.value)
    ELSE IF sp.throws THEN Step("caught", 0, ApologyReply, <<>>)
         ELSE Step("fetch", 0, ApologyReply, callMessages(sp.value, question))

\* body.question, body.context, body.history and the question check.  The
\* property read throws on a body that parsed to null.
PlanQuestion(v, body) ==
    IF body.t \in {"null", "undefined"} THEN Step("throw", 0, ApologyReply, <<>>)
    ELSE LET question == QuestionOf(body)
             context == ArrayOrEmpty(Field(body, "context"))
             history == ArrayOrEmpty(Field(body, "history"))
         IN  IF question = <<>> THEN Step("json", 400, MissingQuestionError, <<>>)
             ELSE PlanCall(v, question, context, history)

PlanBody(v, r) ==
    LET parsed == ParseBody(r.body) IN
    IF ~parsed.ok THEN Step("json", 400, InvalidJsonError, <<>>)
    ELSE PlanQuestion(v, parsed.value)

\* A handler that validates the body before it looks at the key.
PlanBodyFirst(v, r, key) ==
    IF r.method = "OPTIONS" THEN Step("end", 204, ApologyReply, <<>>)
    ELSE IF r.method # "POST" THEN Step("json", 405, MethodError, <<>>)
    ELSE LET p == PlanBody(v, r) IN
         IF p.kind = "fetch" /\ ~key THEN Step("json", 200, NotConfiguredReply, <<>>)
         ELSE p

Plan(v, r, key) ==
    IF r.method = "OPTIONS" THEN Step("end", 204, ApologyReply, <<>>)
    ELSE IF r.method # "POST" THEN Step("json", 405, MethodError, <<>>)
    ELSE IF ~key THEN Step("json", 200, NotConfiguredReply, <<>>)
    ELSE PlanBody(v, r)

(***************************************************************************)
(* Actions.                                                                *)
(***************************************************************************)
HandlerEntry ==
    /\ pc = "start"
    /\ LET p == Plan(variant, req, apiKey) IN
       CASE p.kind = "end" ->
              /\ statusCode' = p.code
              /\ ended' = ended + 1
              /\ pc' = "done"
              /\ UNCHANGED <<contentType, replies, written, fetchCalls, messages>>
         [] p.kind = "json" ->
              /\ SendJson(p.code, p.body)
              /\ UNCHANGED <<fetchCalls, messages>>
         [] p.kind = "throw" ->
              /\ Escapes
              /\ UNCHANGED <<fetchCalls, messages>>
         [] p.kind = "caught" ->
              /\ CatchBlock
              /\ UNCHANGED <<fetchCalls, messages>>
         [] OTHER ->
              /\ fetchCalls' = fetchCalls + 1
              /\ messages' = p.messages
              /\ pc' = "fetching"
              /\ UNCHANGED resVars
    /\ UNCHANGED <<variant, req, apiKey, outcome, streamVars, connected>>

\* fetch rejects: a network exception.
FetchRejects ==
    /\ pc = "fetching"
    /\ outcome' = "rejected"
    /\ messages' = <<>>
    /\ CatchBlock
    /\ UNCHANGED <<variant, req, apiKey, fetchCalls, streamVars, connected>>

StatusName(code) == IF code = 429 THEN "status429" ELSE "status500"

\* The provider answers with a status that is not 2xx.  The streaming handler
\* replies itself; callOpenAI throws into the catch block.
FetchNotOk ==
    /\ pc = "fetching"
    /\ \E code \in {429, 500} : outcome' = StatusName(code)
    /\ messages' = <<>>
    /\ IF variant = "stream" THEN SendJson(200, ApologyReply) ELSE CatchBlock
    /\ UNCHANGED <<variant, req, apiKey, fetchCalls, streamVars, connected>>

\* A 2xx answer to callOpenAI: res.json() throws, the content is not a
\* string, or the content is the reply.
FetchOkBuffered ==
    /\ pc = "fetching"
    /\ variant # "stream"
    /\ messages' = <<>>
    /\ \/ /\ outcome' \in {"okInvalidJson", "okNoContent"}
          /\ CatchBlock
       \/ /\ outcome' = "okContent"
          /\ \E c \in ProviderContents : SendJson(200, ProviderReply(Trim(c)))
    /\ UNCHANGED <<variant, req, apiKey, fetchCalls, streamVars, connected>>

\* A 2xx answer to the streaming handler: the event-stream headers are set and
\* the reader is taken.
FetchOkStream ==
    /\ pc = "fetching"
    /\ variant = "stream"
    /\ messages' = <<>>
    /\ outcome' = "okStream"
    /\ contentType' = "text/event-stream"
    /\ \E b \in UpstreamBodies : upstreamBody' = b /\ upstream' = b
    /\ pending' = <<>>
    /\ buffer' = <<>>
    /\ linesSeen' = <<>>
    /\ pc' = "reading"
    /\ UNCHANGED <<variant, req, apiKey, fetchCalls, statusCode, replies, written, ended, connected>>

\* reader.read() resolves with a value: one pass of the while loop.
ReadChunk ==
    /\ pc = "reading"
    /\ upstream # <<>>
    /\ \E k \in 1..Len(upstream) :
          LET d == Decode(pending, SubSeq(upstream, 1, k))
              segs == SplitLines(buffer \o d.text)
          IN  /\ upstream' = SubSeq(upstream, k + 1, Len(upstream))
              /\ pending' = d.pending
              /\ buffer' = PopLast(segs)
              /\ linesSeen' = linesSeen \o AllButLast(segs)
              /\ written' = ProcessLines(AllButLast(segs), written)
    /\ UNCHANGED <<variant, req, apiKey, pc, statusCode, contentType, replies, ended,
                   fetchCalls, messages, outcome, upstreamBody, connected>>

\* An end of stream that hands the carry to the line loop before it ends
\* the response.
ReadDoneFlushing ==
    /\ pc = "reading"
    /\ upstream = <<>>
    /\ written' = ProcessLines(<<buffer>>, written)
    /\ ended' = ended + 1
    /\ pc' = "done"
    /\ UNCHANGED <<variant, req, apiKey, statusCode, contentType, replies,
                   fetchCalls, messages, outcome, streamVars, connected>>

\* reader.read() resolves with done: break, then res.end().
ReadDone ==
    /\ pc = "reading"
    /\ upstream = <<>>
    /\ ended' = ended + 1
    /\ pc' = "done"
    /\ UNCHANGED <<variant, req, apiKey, statusCode, contentType, replies, written,
                   fetchCalls, messages, outcome, streamVars, connected>>

\* reader.read() rejects: the connection to the provider broke.
ReadFail ==
    /\ pc = "reading"
    /\ outcome' = "readFailed"
    /\ CatchBlock
    /\ UNCHANGED <<variant, req, apiKey, fetchCalls, messages, streamVars, connected>>

\* The downstream consumer goes away.  The handler registers no listener.
ClientDisconnect ==
    /\ pc = "reading"
    /\ connected
    /\ connected' = FALSE
    /\ UNCHANGED <<variant, req, apiKey, pc, resVars, fetchCalls, messages, outcome, streamVars>>

Next ==
    \/ HandlerEntry
    \/ FetchRejects
    \/ FetchNotOk
    \/ FetchOkBuffered
    \/ FetchOkStream
    \/ ReadChunk
    \/ ReadDone
    \/ ReadFail
    \/ ClientDisconnect

Spec == Init /\ [][Next]_vars

(***************************************************************************)
(* Vocabulary of the properties.                                           *)
(***************************************************************************)
\* The response is an event stream that no read failure has interrupted.
Relaying == outcome = "okStream"

\* The bytes of the upstream body read so far, and their text.
Consumed == SubSeq(upstreamBody, 1, Len(upstreamBody) - Len(upstream))

ConsumedText == Decode(<<>>, Consumed).text

\* The newline-terminated lines of a text.
CompleteLines(text) == AllButLast(SplitLines(text))

PayloadOf(line) == Trim(SliceFrom(line, DATA_PREFIX_LENGTH))

IsDataLine(line) == StartsWith(line, DataPrefix)

IsSentinelLine(line) == IsDataLine(line) /\ PayloadOf(line) = Sentinel

\* A data line whose payload is a delta frame with a non-empty content.
IsTokenLine(line) ==
    /\ IsDataLine(line)
    /\ JSONParseFrame(PayloadOf(line)).t = "delta"
    /\ JSONParseFrame(PayloadOf(line)).content # <<>>

\* A data line whose payload is not valid JSON or has no delta content field.
IsMalformedLine(line) ==
    /\ IsDataLine(line)
    /\ PayloadOf(line) # Sentinel
    /\ JSONParseFrame(PayloadOf(line)).t # "delta"

SentinelBefore(lines, j) == \E i \in 1..(j - 1) : IsSentinelLine(lines[i])

\* How many of the first j lines are token lines.
TokenRank(lines, j) == Cardinality({i \in 1..j : IsTokenLine(lines[i])})

DoneWritten == \E i \in 1..Len(written) : written[i] = DoneEvent

\* What one read of the whole text writes.
SingleRead(bytes) == ProcessLines(CompleteLines(Decode(<<>>, bytes).text), <<>>)

\* After the first sentinel line the text holds empty lines only.
NothingAfterSentinel(text) ==
    LET lines == CompleteLines(text) IN
    \A i \in 1..Len(lines) :
        IsSentinelLine(lines[i]) =>
            /\ \A j \in (i + 1)..Len(lines) : lines[j] = <<>>
            /\ PopLast(SplitLines(text)) = <<>>

(***************************************************************************)
(* C1.  The terminal event `data: [DONE]` is written at most once, and no  *)
(* event is written after it.  The break at the sentinel leaves the for    *)
(* loop only, so a later read writes again: TLC finds this violated.       *)
(***************************************************************************)
C1_TerminalEventOnceAndLast ==
    \A i \in 1..Len(written) : written[i] = DoneEvent => i = Len(written)

(***************************************************************************)
(* C2.  Once a sentinel line has been processed the relay reads no more of *)
(* the upstream body and writes nothing more.  TLC finds this violated:    *)
(* the while loop goes on reading until the upstream closes.               *)
(***************************************************************************)
C2_NoReadAfterSentinel ==
    [][DoneWritten => (upstream' = upstream /\ written' = written)]_vars

(***************************************************************************)
(* C3.  Chunk-boundary independence: whatever the reads were, when nothing *)
(* but empty lines follows the sentinel line in the text read so far, the  *)
(* events written are those that one read of that text writes.             *)
(***************************************************************************)
C3_ChunkBoundaryIndependence ==
    (Relaying /\ NothingAfterSentinel(ConsumedText)) => written = SingleRead(Consumed)

\* The example of the specification, cut inside the second `data: ` prefix
\* after the first token was written.
C3_Witness ==
    /\ Relaying
    /\ upstreamBody = ExampleBody
    /\ buffer = <<"d", "a", "t">>
    /\ written = <<TokenEvent(<<"H", "e", "l">>)>>

(***************************************************************************)
(* C4.  A malformed data line sends no error reply and writes no event     *)
(* (with no sentinel read, there are as many events as token lines), and   *)
(* every token line after it, before any sentinel, still writes its token  *)
(* event, at the place its rank among the token lines gives it.            *)
(***************************************************************************)
C4_MalformedFrameSkipped ==
    Relaying =>
        LET lines == CompleteLines(ConsumedText) IN
        \A i \in 1..Len(lines) :
            (IsMalformedLine(lines[i]) /\ ~SentinelBefore(lines, i)) =>
                /\ replies = <<>>
                /\ statusCode = 200
                /\ pc # "crashed"
                /\ ~SentinelBefore(lines, Len(lines) + 1) =>
                       Len(written) = TokenRank(lines, Len(lines))
                /\ \A j \in (i + 1)..Len(lines) :
                       (IsTokenLine(lines[j]) /\ ~SentinelBefore(lines, j)) =>
                           /\ Len(written) >= TokenRank(lines, j)
                           /\ written[TokenRank(lines, j)]
                                  = TokenEvent(JSONParseFrame(PayloadOf(lines[j])).content)

\* A malformed line was read, the frame after it came in a later read, and
\* its token has been written.
C4_Witness ==
    /\ Relaying
    /\ upstreamBody = JoinLines(<<MalformedLine, FrameLine(<<"a">>)>>, TRUE)
    /\ upstream = <<>>
    /\ written = <<TokenEvent(<<"a">>)>>
    /\ pc = "done"

(***************************************************************************)
(* C5.  When the upstream ends and no sentinel line was seen, the response *)
(* is ended once, with no terminal event and no reply, and the carry       *)
(* writes nothing: there are as many events as complete token lines.       *)
(***************************************************************************)
C5_EndWithoutSentinel ==
    LET lines == CompleteLines(Decode(<<>>, upstreamBody).text) IN
    (Relaying /\ pc = "done" /\ ~SentinelBefore(lines, Len(lines) + 1)) =>
        /\ ended = 1
        /\ ~DoneWritten
        /\ replies = <<>>
        /\ statusCode = 200
        /\ Len(written) = TokenRank(lines, Len(lines))

\* The upstream ended with an unterminated sentinel in the carry.
C5_Witness ==
    /\ Relaying
    /\ pc = "done"
    /\ buffer = SentinelLine
    /\ written = <<TokenEvent(<<"a">>)>>
    /\ ended = 1

(***************************************************************************)
(* C6.  A POST handled with no API key configured is answered, by each of  *)
(* the three handlers and whatever its body, with status 200 and the       *)
(* not-configured reply, and no outbound call is made.                     *)
(***************************************************************************)
C6_NoKeyNoCall ==
    (req.method = "POST" /\ ~apiKey) =>
        /\ fetchCalls = 0
        /\ pc \in {"start", "done"}
        /\ pc = "done" =>
              /\ statusCode = 200
              /\ replies = <<NotConfiguredReply>>
              /\ ended = 1

\* A malformed body with no key.
C6_Witness ==
    /\ pc = "done"
    /\ ~apiKey
    /\ req = [method |-> "POST", body |-> Raw("{bad")]
    /\ variant = "chat2"
    /\ replies = <<NotConfiguredReply>>

(***************************************************************************)
(* C7.  Client input errors.                                               *)
(***************************************************************************)
\* The text of a string body is not JSON.
MalformedBody(body) == body.t = "string" /\ body.raw \in {"{bad", ""}

AllWhitespace(s) == \A i \in 1..Len(s) : s[i] \in Whitespace

\* The body is absent or an object or number, and its question is absent, not
\* a string, empty or whitespace only.
BlankQuestion(body) ==
    LET b == IF body.t = "string" THEN JSONParseBody(body.raw).value ELSE body
        q == Field(b, "question")
    IN  /\ ~MalformedBody(body)
        /\ b.t \in {"undefined", "object", "number"}
        /\ (q.t = "string" => AllWhitespace(q.s))

InputErrorAnswer ==
    /\ MalformedBody(req.body) =>
          (pc = "done" /\ statusCode = 400 /\ replies = <<InvalidJsonError>>)
    /\ BlankQuestion(req.body) =>
          (pc = "done" /\ statusCode = 400 /\ replies = <<MissingQuestionError>>)
    /\ (MalformedBody(req.body) \/ BlankQuestion(req.body)) => fetchCalls = 0

C8_BufferedFailureIs200 ==
    (variant # "stream" /\ pc = "done"
        /\ outcome \in {"rejected", "status429", "status500", "okInvalidJson", "okNoContent"}) =>
        (statusCode = 200 /\ replies = <<ApologyReply>>)

(***************************************************************************)
(* C9.  After the downstream consumer has disconnected the relay reads no  *)
(* more of the upstream body.  TLC finds this violated: the handler does   *)
(* not observe the disconnect and reads until the upstream closes.         *)
(***************************************************************************)
C9_DisconnectStopsReading ==
    [][~connected => upstream' = upstream]_vars

(***************************************************************************)
(* C10.  No exception escapes a handler, and a finished handler has sent   *)
(* exactly one response.  TLC finds this violated: a body that parses to   *)
(* null makes the read of body.question throw outside every try block.     *)
(***************************************************************************)
C10_OneResponseNoEscape ==
    /\ pc # "crashed"
    /\ pc = "done" => ended = 1

(***************************************************************************)
(* Prompt assembly on its own: requests with a key and a question, whose   *)
(* context and history vary, handled up to the outbound call, which the    *)
(* network then fails.                                                     *)
(***************************************************************************)
\* Bounds: how many equal entries follow the varied ones of a history and of
\* a context.
MaxHistoryPad == 10

MaxContextPad == 5

\* n characters, the ones after position `cut` told apart from the others.
LongText(n, cut) == [i \in 1..n |-> IF i <= cut THEN "x" ELSE "y"]

Repeat(e, n) == [i \in 1..n |-> e]

ShortSeqs(kinds) == UNION { [1..n -> kinds] : n \in 0..2 }

AssistantTurn == [t |-> "object", role |-> Str(AssistantRole), content |-> Str(<<"r">>)]

LongTurn ==
    [t |-> "object", role |-> Str(UserRole),
     content |-> Str(LongText(MAX_TURN_LENGTH + 1, MAX_TURN_LENGTH))]

NumberTurn == [t |-> "object", role |-> Str(AssistantRole), content |-> Num(42)]

HistoryKinds == {UserTurn, AssistantTurn, ToolTurn, LongTurn, NumberTurn}

PromptHistories ==
    { short \o Repeat(pad, n) :
        short \in ShortSeqs(HistoryKinds), pad \in {UserTurn, ToolTurn}, n \in 0..MaxHistoryPad }

LongItem ==
    [t |-> "object", title |-> Str(<<"L">>),
     body |-> Str(LongText(MAX_BODY_LENGTH + 1, MAX_BODY_LENGTH))]

BareItem == [t |-> "object"]

OddItem == [t |-> "object", title |-> Num(5), body |-> Bool(FALSE)]

NumberBodyItem == [t |-> "object", title |-> Str(<<"N">>), body |-> Num(7)]

ItemKinds == {GoodItem, LongItem, BareItem, OddItem, NumberBodyItem}

PromptContexts ==
    { short \o Repeat(GoodItem, n) : short \in ShortSeqs(ItemKinds), n \in 0..MaxContextPad }

PromptBodies ==
    { ReqBody(Str(PaddedHi), Arr(c), Undef) : c \in PromptContexts }
    \cup { ReqBody(Str(Hi), Arr(<<GoodItem>>), Arr(h)) : h \in PromptHistories }

InitPrompt ==
    /\ variant \in Variants
    /\ req \in [method : {"POST"}, body : PromptBodies]
    /\ apiKey = TRUE
    /\ pc = "start"
    /\ statusCode = 200
    /\ contentType = "none"
    /\ replies = <<>>
    /\ written = <<>>
    /\ ended = 0
    /\ fetchCalls = 0
    /\ messages = <<>>
    /\ outcome = "none"
    /\ upstreamBody = <<>>
    /\ upstream = <<>>
    /\ pending = <<>>
    /\ buffer = <<>>
    /\ linesSeen = <<>>
    /\ connected = TRUE

NextPrompt ==
    \/ HandlerEntry
    \/ FetchRejects

SpecPrompt == InitPrompt /\ [][NextPrompt]_vars

\* The request's question, context and history as the handler reads them.
AskedQuestion == Trim(req.body.question.s)

GivenContext == ArrayOrEmpty(Field(req.body, "context"))

GivenHistory == ArrayOrEmpty(Field(req.body, "history"))

\* The streaming handler has assembled its message list and made the call.
MessagesBuilt == pc = "fetching" /\ variant = "stream"

Interior(msgs) == SubSeq(msgs, 2, Len(msgs) - 1)

\* Message m is the turn of history entry e: its role, and its content up to
\* where it was cut.
TurnOf(m, e) ==
    LET r == Field(e, "role")
        c == Field(e, "content")
        text == IF Truthy(c) THEN StringOf(c) ELSE <<>>
    IN  /\ r.t = "string"
        /\ m.role = r.s
        /\ Len(m.content) <= Len(text)
        /\ m.content = SubSeq(text, 1, Len(m.content))

\* The messages are turns of entries taken in increasing order of position.
RECURSIVE InOrderOf(_, _)
InOrderOf(msgs, entries) ==
    IF msgs = <<>> THEN TRUE
    ELSE IF entries = <<>> THEN FALSE
    ELSE IF TurnOf(Head(msgs), Head(entries)) THEN InOrderOf(Tail(msgs), Tail(entries))
    ELSE InOrderOf(msgs, Tail(entries))

HasChatRole(e) ==
    Field(e, "role").t = "string" /\ Field(e, "role").s \in {UserRole, AssistantRole}

\* The positions of the last MAX_HISTORY entries.
Window(h) == { i \in 1..Len(h) : i > Len(h) - MAX_HISTORY }

(***************************************************************************)
(* C11.  The list buildMessages returns starts with the only system        *)
(* message, ends with a user message holding the question, holds between 2 *)
(* and 12 messages, and between the two holds one turn for every entry of  *)
(* the window with role user or assistant, in the order of the history.    *)
(***************************************************************************)
C11_MessageListShape ==
    MessagesBuilt =>
        /\ Len(messages) >= 2
        /\ Len(messages) <= MAX_HISTORY + 2
        /\ messages[1].role = SystemRole
        /\ \A i \in 2..Len(messages) : messages[i].role # SystemRole
        /\ messages[Len(messages)] = Message(UserRole, AskedQuestion)
        /\ InOrderOf(Interior(messages), GivenHistory)
        /\ Len(Interior(messages))
              = Cardinality({ i \in Window(GivenHistory) : HasChatRole(GivenHistory[i]) })

\* Twelve entries, the first two out of the window: ten turns are kept.
C11_Witness ==
    /\ MessagesBuilt
    /\ GivenHistory = <<AssistantTurn, UserTurn>> \o Repeat(UserTurn, 10)
    /\ Len(messages) = 12

\* The first n characters of a text, all of it when it is shorter.
FirstChars(text, n) == [i \in 1..(IF Len(text) < n THEN Len(text) ELSE n) |-> text[i]]

ContentText(e) ==
    LET c == Field(e, "content") IN IF Truthy(c) THEN StringOf(c) ELSE <<>>

\* The turns of the entries of h from position i on that are in the window
\* and have role user or assistant.
RECURSIVE WindowTurns(_, _)
WindowTurns(h, i) ==
    IF i > Len(h) THEN <<>>
    ELSE (IF i \in Window(h) /\ HasChatRole(h[i])
          THEN <<[role |-> Field(h[i], "role").s,
                  content |-> FirstChars(ContentText(h[i]), MAX_TURN_LENGTH)]>>
          ELSE <<>>)
         \o WindowTurns(h, i + 1)

(***************************************************************************)
(* C12.  The turns kept are exactly the entries among the last 10 of the   *)
(* history with role user or assistant, the window being taken before the  *)
(* filter, each with its content cut to its first 2000 characters.         *)
(***************************************************************************)
C12_WindowThenFilter ==
    MessagesBuilt => Interior(messages) = WindowTurns(GivenHistory, 1)

\* Eleven entries: the first, a user turn, is out of the window, the nine tool
\* entries use up window slots, and the long turn is cut.
C12_Witness ==
    /\ MessagesBuilt
    /\ GivenHistory = <<UserTurn, LongTurn>> \o Repeat(ToolTurn, 9)
    /\ Len(messages) = 3
    /\ messages[2].content = LongText(MAX_TURN_LENGTH, MAX_TURN_LENGTH)

PromptBuilt == pc = "fetching"

SystemPrompt == messages[1].content

BodyText(item) ==
    LET b == Field(item, "body") IN IF b.t = "string" THEN b.s ELSE <<>>

\* What the claim says of the i-th item: its header and title, a line feed,
\* and the first min(2800, length) characters of its body.
Rendered(v, item, i) ==
    (IF v = "stream"
     THEN <<"#", "#", " ", "[", "A", "r", "t", "i", "c", "l", "e", " ">> \o Digits(i) \o <<"]", " ">>
     ELSE <<"#", "#", " ">>)
    \o ItemTitle(item) \o <<LF>> \o FirstChars(BodyText(item), MAX_BODY_LENGTH)

RECURSIVE RenderedUpTo(_, _, _)
RenderedUpTo(v, c, n) ==
    IF n = 0 THEN <<>>
    ELSE RenderedUpTo(v, c, n - 1)
         \o (IF n > 1 THEN BlockSeparator ELSE <<>>)
         \o Rendered(v, c[n], n)

Shown(c) == IF Len(c) < MAX_CONTEXT_ITEMS THEN Len(c) ELSE MAX_CONTEXT_ITEMS

(***************************************************************************)
(* C13.  In all three handlers the system prompt is the persona followed   *)
(* by the first min(5, n) context items in input order, each body cut to   *)
(* its first min(2800, length) characters with nothing appended; the       *)
(* placeholder sentence stands in the prompt exactly when the context      *)
(* array is empty.                                                         *)
(***************************************************************************)
C13_PromptRendersFirstItems ==
    PromptBuilt =>
        /\ SystemPrompt =
               Persona(variant)
               \o (IF GivenContext = <<>> THEN Placeholder
                   ELSE RenderedUpTo(variant, GivenContext, Shown(GivenContext)))
        /\ EndsWith(SystemPrompt, Placeholder) <=> GivenContext = <<>>

\* Seven items, the first with a body one character over the limit.
C13_Witness ==
    /\ PromptBuilt
    /\ variant = "chat"
    /\ GivenContext = <<LongItem, OddItem>> \o Repeat(GoodItem, 5)
    /\ Len(SystemPrompt) > MAX_BODY_LENGTH

IsTokenEvent(e) == e # DoneEvent

\* The lines up to the first sentinel line, all of them when there is none.
UpToSentinel(lines) ==
    SubSeq(lines, 1,
           IF \E i \in 1..Len(lines) : IsSentinelLine(lines[i])
           THEN CHOOSE i \in 1..Len(lines) :
                    IsSentinelLine(lines[i]) /\ ~SentinelBefore(lines, i)
           ELSE Len(lines))

\* One event per token line among the first j lines, in line order.
RECURSIVE TokenEventsOf(_, _)
TokenEventsOf(lines, j) ==
    IF j = 0 THEN <<>>
    ELSE TokenEventsOf(lines, j - 1)
         \o (IF IsTokenLine(lines[j])
             THEN <<TokenEvent(JSONParseFrame(PayloadOf(lines[j])).content)>>
             ELSE <<>>)

(***************************************************************************)
(* C14.  The token events written are, in order and one per frame, the     *)
(* non-empty delta contents of the complete data lines read so far up to   *)
(* the sentinel line.  TLC finds this violated: a frame that a later read  *)
(* delivers after the sentinel line is written as a token event too.       *)
(***************************************************************************)
C14_TokenEventsUpToSentinel ==
    Relaying =>
        LET lines == UpToSentinel(CompleteLines(ConsumedText)) IN
        SelectSeq(written, IsTokenEvent) = TokenEventsOf(lines, Len(lines))

\* The same statement for streams that carry nothing but empty lines after
\* the sentinel line: there it holds.
C14_TokenEventsWhenSentinelLast ==
    (Relaying /\ NothingAfterSentinel(ConsumedText)) =>
        LET lines == UpToSentinel(CompleteLines(ConsumedText)) IN
        SelectSeq(written, IsTokenEvent) = TokenEventsOf(lines, Len(lines))

ReadFailed == outcome = "readFailed"

(***************************************************************************)
(* C15.  When a read of the upstream body fails after the relay started,   *)
(* the downstream response is closed (and no terminal event is written    *)
(* for the failure).  TLC finds the closing violated: when an event was    *)
(* written before the failure, res.status(200).json throws in the catch    *)
(* block because the header block is out, and res.end() is never reached.  *)
(***************************************************************************)
C15_ReadFailureClosesResponse == ReadFailed => ended = 1

\* The part that holds: the failing read writes no event.
C15_ReadFailureWritesNothing ==
    [][(pc = "reading" /\ outcome' = "readFailed") => written' = written]_vars

\* The provider answered ok and the event-stream headers were set.
StreamOpened == outcome \in {"okStream", "readFailed"}

(***************************************************************************)
(* C16.  A response of the streaming handler is one JSON reply or an event *)
(* stream, never both: once the event-stream headers are set no JSON reply *)
(* is sent.  TLC finds this violated: a read that fails before any event   *)
(* was written is answered with the apology reply by the catch block,      *)
(* after the event-stream headers were set.                                *)
(***************************************************************************)
C16_JsonReplyOrEventStream ==
    (variant = "stream" /\ StreamOpened) => replies = <<>>

\* The body parses to an object with a question that is a string with
\* something other than white space in it.
HasQuestion(body) ==
    LET b == IF body.t = "string" THEN JSONParseBody(body.raw).value ELSE body
        q == Field(b, "question")
    IN  /\ ~MalformedBody(body)
        /\ b.t = "object"
        /\ q.t = "string"
        /\ ~AllWhitespace(q.s)

ValidRequest == req.method = "POST" /\ apiKey /\ HasQuestion(req.body)

Entered == pc # "start"

(***************************************************************************)
(* C17.  Every handler makes exactly one provider call for a POST request  *)
(* with an API key, a parseable body and a non-empty question, and zero    *)
(* calls for every other request.  TLC finds this violated: such a request *)
(* whose context holds an item that makes buildSystemPrompt throw is       *)
(* answered (or dropped) without any call.                                 *)
(***************************************************************************)
C17_OneProviderCall ==
    Entered => fetchCalls = (IF ValidRequest THEN 1 ELSE 0)

\* The parts that hold: never a second call, and no call for the other
\* requests.
C17_NoSecondCallNoStrayCall ==
    /\ fetchCalls <= 1
    /\ ~ValidRequest => fetchCalls = 0

\* The request body is an object whose context items and history entries
\* are all objects, whatever the types of their fields.
ObjectEntries(body) ==
    /\ body.t = "object"
    /\ \A i \in 1..Len(ArrayOrEmpty(Field(body, "context"))) :
           ArrayOrEmpty(Field(body, "context"))[i].t = "object"
    /\ \A i \in 1..Len(ArrayOrEmpty(Field(body, "history"))) :
           ArrayOrEmpty(Field(body, "history"))[i].t = "object"

(***************************************************************************)
(* C18.  Prompt assembly never fails on malformed input: whatever the      *)
(* types of the title and body of the context items and of the content of  *)
(* the history entries, buildSystemPrompt and buildMessages return.  TLC   *)
(* finds this violated: a body that is a number has no slice method.       *)
(***************************************************************************)
C18_PromptAssemblyReturns ==
    (Entered /\ ValidRequest /\ ObjectEntries(req.body)) =>
        LET sp == buildSystemPrompt(variant, GivenContext) IN
        /\ ~sp.throws
        /\ variant = "stream" =>
               ~buildMessages(sp.value, AskedQuestion, GivenHistory).throws

\* Where the last newline of a text is, 0 when it has none.
LastNewline(text) ==
    IF \E i \in 1..Len(text) : text[i] = LF
    THEN CHOOSE i \in 1..Len(text) :
             text[i] = LF /\ \A j \in (i + 1)..Len(text) : text[j] # LF
    ELSE 0

HasNewline(text) == \E i \in 1..Len(text) : text[i] = LF

(***************************************************************************)
(* C19.  Carry-buffer invariant: after each read has been processed the    *)
(* buffer holds no newline and is the part of the text decoded so far that *)
(* follows its last newline, and the lines given to the line loop over all *)
(* reads are the lines before that newline, each once and in order.        *)
(***************************************************************************)
C19_CarryBufferInvariant ==
    (pc = "reading" \/ Relaying) =>
        LET text == ConsumedText
            cut  == LastNewline(text)
        IN  /\ ~HasNewline(buffer)
            /\ buffer = SubSeq(text, cut + 1, Len(text))
            /\ \A i \in 1..Len(linesSeen) : ~HasNewline(linesSeen[i])
            /\ JoinLines(linesSeen, TRUE) = SubSeq(text, 1, cut)

\* The reads so far end inside the third line: two lines have been given to
\* the loop and the start of the third is the carry.
C19_Witness ==
    /\ pc = "reading"
    /\ upstreamBody = ExampleBody
    /\ Len(linesSeen) = 2
    /\ buffer # <<>>
    /\ written = <<TokenEvent(<<"H", "e", "l">>)>>

====
